---- MODULE Spec2Model ----
(***************************************************************************)
(* SearchBar (src/components/Search/SearchBar/index.tsx) and the log-line  *)
(* row (AnsiiRow) of the parsley log viewer, as state machines.            *)
(*                                                                         *)
(* One step of the SearchBar machine is one browser task handled to        *)
(* completion: the event handler, the re-render it causes and the effects  *)
(* that run after that render.  `ev` names the task of the last step and   *)
(* `out` lists, in order, the calls that task made on the component's      *)
(* collaborators (onSubmit, onChange, leaveBreadcrumb, the input element,  *)
(* scrollToLine).                                                          *)
(***************************************************************************)
EXTENDS Integers, Sequences, FiniteSets, TLC

\* ------------------------------------------------------------------ bounds
\* Timers of abandoned debounce instances that may be pending together.
MaxOrphans == 1
\* Largest amount of time one Tick lets pass, in ms.
TickMs == 500
\* Rows of the log are numbered 0..MaxLine.
MaxLine == 1

\* -------------------------------------------------------- program constants
\* debounce(..., 1000)
DebounceMs == 1000

\* enum SearchBarActions (constants/enums): keys and values in declaration
\* order.
SearchBarActionKeys == <<"Search", "Filter", "Highlight">>

SearchBarActions == [Search |-> "search", Filter |-> "filter", Highlight |-> "highlight"]

\* Object.values(SearchBarActions)
SearchBarActionValues == [k \in 1..Len(SearchBarActionKeys) |-> SearchBarActions[SearchBarActionKeys[k]]]

Modes == {SearchBarActionValues[k] : k \in 1..Len(SearchBarActionValues)}

\* Values the user can type: the empty string and two one-character strings.
Patterns == {<<>>, <<"a">>, <<"b">>}

\* The validator prop is a predicate on strings; it is represented by the
\* set of patterns it rejects.  {} is the default validator, () => true.
Validators == SUBSET Patterns

\* validatorMessage = "Invalid Input"
validatorMessage == "Invalid Input"

VARIABLES
  input,      \* useState(""): the pattern
  selected,   \* useState(SearchBarActions.Search): the mode
  disabled,   \* prop
  rejected,   \* prop validator, as the set of patterns it rejects
  mounted,    \* the component is mounted
  timer,      \* pending timeout of the current debounced callback (0 or 1)
  orphans,    \* pending timeouts of debounced callbacks of earlier renders
  ev,         \* the task handled by the last step
  out,        \* the calls made during the last step, in order
  stale,      \* history: the last step forwarded a value that a later
              \* changePattern had already superseded within the window
  late,       \* history: the last step forwarded a value entered before a
              \* submit that has cleared it from the input since
  getLine,    \* row: line accessor, index -> text or Undefined
  searchTerm, \* row: sequence holding the search term, empty when not set
  range,      \* row: sequence holding the range record, empty when absent
  shareLine,  \* URL query state: sequence holding the share line (0 or 1)
  bookmarks,  \* URL query state: set of bookmarked line indices
  lineNumber, \* row: the row rendered last
  rendered    \* row: what the last render of row lineNumber produced

barVars == <<input, selected, disabled, rejected, mounted, timer, orphans, stale, late>>

rowVars == <<getLine, searchTerm, range, shareLine, bookmarks, lineNumber, rendered>>

vars == <<barVars, rowVars, ev, out>>

\* ------------------------------------------------------------- SearchBar

validator(value) == value \notin rejected

isValid == validator(input)

\* Array.prototype.indexOf on Object.values(SearchBarActions), 0-based.
indexOf(values, v) == (CHOOSE k \in 1..Len(values) : values[k] = v) - 1

\* Variant: the index is clamped to the last action instead of wrapping.
NextSearchBarActionNoWrap(sel) ==
  LET next    == indexOf(SearchBarActionValues, sel) + 1
      last    == Len(SearchBarActionValues) - 1
      nextKey == SearchBarActionKeys[(IF next > last THEN last ELSE next) + 1]
  IN  SearchBarActions[nextKey]

\* Ctrl+S callback: the action after `sel` in declaration order.
NextSearchBarAction(sel) ==
  LET keyIndex == (indexOf(SearchBarActionValues, sel) + 1) % Len(SearchBarActionValues)
      nextKey  == SearchBarActionKeys[keyIndex + 1]
  IN  SearchBarActions[nextKey]

\* Variant: onSubmit and the breadcrumb get the pattern as the submit left it,
\* and onSubmit is called first.
handleOnSubmitCallsAfterClear(sel, inp) ==
  << <<"blur">>,
     <<"onSubmit", sel, IF sel = "search" THEN inp ELSE <<>> >>,
     <<"leaveBreadcrumb", "search-bar-submit", sel, IF sel = "search" THEN inp ELSE <<>> >> >>

\* handleOnSubmit in the closure of a render with mode sel and pattern inp:
\* the calls it makes and the pattern it leaves.
handleOnSubmitCalls(sel, inp) ==
  << <<"blur">>,
     <<"leaveBreadcrumb", "search-bar-submit", sel, inp>>,
     <<"onSubmit", sel, inp>> >>

\* Variant: every submit clears the pattern, in Search mode too.
handleOnSubmitInputAlwaysClears(sel, inp) == <<>>

\* Variant: the pattern is cleared in Filter mode only.
handleOnSubmitInputFilterOnly(sel, inp) ==
  IF sel = SearchBarActions.Filter THEN <<>> ELSE inp

handleOnSubmitInput(sel, inp) ==
  IF sel = SearchBarActions.Filter \/ sel = SearchBarActions.Highlight
  THEN <<>>
  ELSE inp

\* Variant: the effect has no dependency list and runs after every render.
isSearchEffectRunsEveryRender(wasSearch, sel) == TRUE

\* useEffect(..., [isSearch]): runs after the first render and after every
\* render in which isSearch differs from the previous render.
isSearchEffectRuns(wasSearch, sel) == wasSearch # (sel = SearchBarActions.Search)

\* Variant: the effect submits without looking at the pattern.
isSearchEffectSubmitsAnyPattern(sel, inp) == sel = SearchBarActions.Search

isSearchEffectSubmits(sel, inp) == sel = SearchBarActions.Search /\ Len(inp) > 0

\* Variant: the submit button is rendered whatever the validator says.
IconAlwaysButton ==
  [glyph |-> "Plus", disabled |-> (disabled \/ Len(input) = 0), text |-> ""]

\* Variant: the submit button is disabled by the disabled prop only.
IconEnabledWhenEmpty ==
  IF isValid
  THEN [glyph |-> "Plus", disabled |-> disabled, text |-> ""]
  ELSE [glyph |-> "Warning", disabled |-> FALSE, text |-> validatorMessage]

\* The submit button is rendered when the pattern is valid, the warning
\* otherwise.
Icon ==
  IF isValid
  THEN [glyph |-> "Plus", disabled |-> (disabled \/ Len(input) = 0), text |-> ""]
  ELSE [glyph |-> "Warning", disabled |-> FALSE, text |-> validatorMessage]

\* debounce(fn, ms): calling the debounced function clears its pending
\* timeout and sets a new one holding the arguments of this call.
\* (superseded, submitted and latest are history kept for the properties.)
debounceCall(sel, value) ==
  << [selected |-> sel, value |-> value, remaining |-> DebounceMs,
      superseded |-> FALSE, submitted |-> FALSE, latest |-> TRUE] >>

\* A pending timeout of an earlier debounce instance is superseded when a
\* newer valid value is entered before it has run out.
Supersede(os) ==
  [k \in 1..Len(os) |-> IF os[k].remaining > 0
                        THEN [os[k] EXCEPT !.superseded = TRUE, !.latest = FALSE]
                        ELSE [os[k] EXCEPT !.latest = FALSE]]

\* A submit leaves the pending timeouts as they are; when it clears the input
\* (before # after), those holding another value than the cleared input are
\* marked.
AfterSubmit(ts, before, after) ==
  [k \in 1..Len(ts) |-> IF before # after /\ ts[k].value # after
                        THEN [ts[k] EXCEPT !.submitted = TRUE]
                        ELSE ts[k]]

\* useMemo(() => debounce(...), [selected, onChange]): a render with another
\* mode makes a new debounced callback; the timeout of the old one stays
\* pending and keeps the mode it was created with.
RebuildTimer(sel) == IF sel # selected THEN <<>> ELSE timer

\* Variant: the timeout of the old debounced callback is cleared.
RebuildOrphansCancels(sel) == orphans

RebuildOrphans(sel) == IF sel # selected THEN orphans \o timer ELSE orphans

CanRebuild(sel) == (sel # selected /\ Len(timer) > 0) => Len(orphans) < MaxOrphans

\* setSelected(sel) followed by the render and its effects.
SetSelected(sel, calls) ==
  /\ CanRebuild(sel)
  /\ selected' = sel
  /\ timer' = RebuildTimer(sel)
  /\ orphans' = RebuildOrphans(sel)
  /\ IF isSearchEffectRuns(selected = SearchBarActions.Search, sel)
        /\ isSearchEffectSubmits(sel, input)
     THEN /\ input' = handleOnSubmitInput(sel, input)
          /\ out' = calls \o handleOnSubmitCalls(sel, input)
     ELSE /\ input' = input
          /\ out' = calls

\* Variant: every value is handed to the debounced callback, and only a
\* valid value is shown.
handleOnChangeValidatesDisplay(value) ==
  /\ mounted /\ ~disabled
  /\ value # input
  /\ timer' = debounceCall(selected, value)
  /\ orphans' = Supersede(orphans)
  /\ input' = IF validator(value) THEN value ELSE input
  /\ out' = <<>>
  /\ ev' = "changePattern"
  /\ stale' = FALSE
  /\ late' = FALSE
  /\ UNCHANGED <<selected, disabled, rejected, mounted, rowVars>>

\* onChange of the input element: handleOnChange(e.target.value), followed by
\* the render that setInput causes and the effects of that render.  The
\* element reports a change only when its value differs from the one shown.
handleOnChange(value) ==
  /\ mounted /\ ~disabled
  /\ value # input
  /\ IF validator(value)
     THEN /\ timer' = debounceCall(selected, value)
          /\ orphans' = Supersede(orphans)
     ELSE UNCHANGED <<timer, orphans>>
  /\ IF isSearchEffectRuns(selected = SearchBarActions.Search, selected)
        /\ isSearchEffectSubmits(selected, value)
     THEN /\ input' = handleOnSubmitInput(selected, value)
          /\ out' = handleOnSubmitCalls(selected, value)
     ELSE /\ input' = value
          /\ out' = <<>>
  /\ ev' = "changePattern"
  /\ stale' = FALSE
  /\ late' = FALSE
  /\ UNCHANGED <<selected, disabled, rejected, mounted, rowVars>>

\* onChange of the select: handleChangeSelect(value)
handleChangeSelect(value) ==
  /\ mounted /\ ~disabled
  /\ SetSelected(value, << <<"leaveBreadcrumb", "search-bar-select", value>> >>)
  /\ ev' = "select"
  /\ stale' = FALSE
  /\ late' = FALSE
  /\ UNCHANGED <<disabled, rejected, mounted, rowVars>>

\* Variant: the shortcut is registered without the disabled option.
CtrlSIgnoresDisabled ==
  /\ mounted
  /\ SetSelected(NextSearchBarAction(selected), <<>>)
  /\ ev' = "ctrlS"
  /\ stale' = FALSE
  /\ late' = FALSE
  /\ UNCHANGED <<disabled, rejected, mounted, rowVars>>

\* Ctrl+S; the shortcut is registered with { disabled }.
CtrlS ==
  /\ mounted
  /\ IF disabled
     THEN /\ out' = <<>>
          /\ UNCHANGED <<input, selected, timer, orphans>>
     ELSE SetSelected(NextSearchBarAction(selected), <<>>)
  /\ ev' = "ctrlS"
  /\ stale' = FALSE
  /\ late' = FALSE
  /\ UNCHANGED <<disabled, rejected, mounted, rowVars>>

\* Ctrl+F; the shortcut is registered with { disabled }.
CtrlF ==
  /\ mounted
  /\ out' = IF disabled THEN <<>> ELSE << <<"focus">>, <<"select">> >>
  /\ ev' = "ctrlF"
  /\ stale' = FALSE
  /\ late' = FALSE
  /\ UNCHANGED <<input, selected, timer, orphans, disabled, rejected, mounted, rowVars>>

\* The handler both submit paths end in, when their condition holds.
Submit(cond) ==
  IF cond
  THEN /\ input' = handleOnSubmitInput(selected, input)
       /\ out' = handleOnSubmitCalls(selected, input)
       /\ timer' = AfterSubmit(timer, input, input')
       /\ orphans' = AfterSubmit(orphans, input, input')
  ELSE /\ input' = input
       /\ out' = <<>>
       /\ UNCHANGED <<timer, orphans>>

\* onKeyPress with e.key === "Enter"
PressEnter ==
  /\ mounted /\ ~disabled
  /\ Submit(isValid)
  /\ ev' = "enter"
  /\ stale' = FALSE
  /\ late' = FALSE
  /\ UNCHANGED <<selected, disabled, rejected, mounted, rowVars>>

\* A click where the icon of the input is: the submit button when it is
\* rendered and enabled, the warning otherwise.
ClickSubmit ==
  /\ mounted
  /\ Submit(Icon.glyph = "Plus" /\ ~Icon.disabled)
  /\ ev' = "click"
  /\ stale' = FALSE
  /\ late' = FALSE
  /\ UNCHANGED <<selected, disabled, rejected, mounted, rowVars>>

\* The parent renders the bar with another value of the disabled prop.
SetDisabled ==
  /\ mounted
  /\ disabled' = ~disabled
  /\ ev' = "props"
  /\ out' = <<>>
  /\ stale' = FALSE
  /\ late' = FALSE
  /\ UNCHANGED <<input, selected, timer, orphans, rejected, mounted, rowVars>>

\* The component is unmounted; nothing clears the timeouts.
Unmount ==
  /\ mounted
  /\ mounted' = FALSE
  /\ ev' = "unmount"
  /\ out' = <<>>
  /\ stale' = FALSE
  /\ late' = FALSE
  /\ UNCHANGED <<input, selected, timer, orphans, disabled, rejected, rowVars>>

\* ---------------------------------------------------------------- time

Elapse(ts, d) == [k \in 1..Len(ts) |-> [ts[k] EXCEPT !.remaining = ts[k].remaining - d]]

Pending == {timer[k].remaining : k \in 1..Len(timer)} \cup {orphans[k].remaining : k \in 1..Len(orphans)}

Min(S) == CHOOSE x \in S : \A y \in S : x <= y

\* Time passes: up to TickMs, and never beyond the next timeout, which runs
\* first.
Tick ==
  /\ Pending # {}
  /\ 0 \notin Pending
  /\ LET d == Min(Pending \cup {TickMs})
     IN  /\ timer' = Elapse(timer, d)
         /\ orphans' = Elapse(orphans, d)
  /\ ev' = "tick"
  /\ out' = <<>>
  /\ stale' = FALSE
  /\ late' = FALSE
  /\ UNCHANGED <<input, selected, disabled, rejected, mounted, rowVars>>

Remove(s, k) == SubSeq(s, 1, k - 1) \o SubSeq(s, k + 1, Len(s))

\* Variant: the callback forwards the pattern shown when it runs.
FireTimerForwardsShown ==
  /\ Len(timer) = 1
  /\ timer[1].remaining = 0
  /\ out' = << <<"onChange", timer[1].selected, input>> >>
  /\ stale' = timer[1].superseded
  /\ late' = timer[1].submitted
  /\ timer' = <<>>
  /\ ev' = "timeout"
  /\ UNCHANGED <<input, selected, orphans, disabled, rejected, mounted, rowVars>>

\* The timeout of the current debounced callback runs: onChange(selected,
\* value) with the mode of the render that created the callback.
FireTimer ==
  /\ Len(timer) = 1
  /\ timer[1].remaining = 0
  /\ out' = << <<"onChange", timer[1].selected, timer[1].value>> >>
  /\ stale' = timer[1].superseded
  /\ late' = timer[1].submitted
  /\ timer' = <<>>
  /\ ev' = "timeout"
  /\ UNCHANGED <<input, selected, orphans, disabled, rejected, mounted, rowVars>>

\* The timeout of a debounced callback of an earlier render runs.
FireOrphan(k) ==
  /\ k \in 1..Len(orphans)
  /\ orphans[k].remaining = 0
  /\ out' = << <<"onChange", orphans[k].selected, orphans[k].value>> >>
  /\ stale' = orphans[k].superseded
  /\ late' = orphans[k].submitted
  /\ orphans' = Remove(orphans, k)
  /\ ev' = "timeout"
  /\ UNCHANGED <<input, selected, timer, disabled, rejected, mounted, rowVars>>

\* ------------------------------------------------------------ specification

RowIdle ==
  /\ getLine = [i \in 0..MaxLine |-> <<>>]
  /\ searchTerm = <<>>
  /\ range = <<>>
  /\ shareLine = <<>>
  /\ bookmarks = {}
  /\ lineNumber = 0
  /\ rendered = <<>>

\* The state after the first render and its effects.
Init ==
  /\ input = <<>>
  /\ selected = SearchBarActions.Search
  /\ disabled \in BOOLEAN
  /\ rejected \in Validators
  /\ mounted = TRUE
  /\ timer = <<>>
  /\ orphans = <<>>
  /\ ev = "mount"
  /\ out = IF isSearchEffectSubmits(selected, input)
           THEN handleOnSubmitCalls(selected, input)
           ELSE <<>>
  /\ stale = FALSE
  /\ late = FALSE
  /\ RowIdle

Next ==
  \/ \E value \in Patterns : handleOnChange(value)
  \/ \E value \in Modes : handleChangeSelect(value)
  \/ CtrlS
  \/ CtrlF
  \/ PressEnter
  \/ ClickSubmit
  \/ SetDisabled
  \/ Unmount
  \/ Tick
  \/ FireTimer
  \/ \E k \in 1..MaxOrphans : FireOrphan(k)

Spec == Init /\ [][Next]_vars

\* --------------------------------------------------- log-line row (AnsiiRow)

Lines == 0..MaxLine

\* Line texts: the empty string, a line without the term, a line with it.
Texts == {<<>>, <<"x">>, <<"x", "H">>}

\* A compiled, case-insensitive pattern, represented by its literal text.
Terms == {<<"h">>}

\* getLine(i) is undefined (the empty sequence) or holds the text of line i.
LineAccessors == [Lines -> {<<>>} \cup {<<t>> : t \in Texts}]

Ranges == [lowerRange : Lines, upperRange : {<<>>} \cup {<<u>> : u \in Lines}]

toLowerCase(c) == IF c = "H" THEN "h" ELSE IF c = "X" THEN "x" ELSE c

Lower(text) == [k \in 1..Len(text) |-> toLowerCase(text[k])]

\* RegExp.test of a term with the i flag against a line.
Matches(term, text) ==
  \E k \in 1..(Len(text) - Len(term) + 1) :
    SubSeq(Lower(text), k, k + Len(term) - 1) = Lower(term)

\* Variant: upperRange is exclusive.
isLineInRangeExclusive(rg, i) ==
  \/ Len(rg) = 0
  \/ /\ rg[1].lowerRange <= i
     /\ \/ Len(rg[1].upperRange) = 0
        \/ i < rg[1].upperRange[1]

\* The line index lies in the range: lowerRange and upperRange inclusive, no
\* upperRange means no upper limit, no range means every line.
isLineInRange(rg, i) ==
  \/ Len(rg) = 0
  \/ /\ rg[1].lowerRange <= i
     /\ \/ Len(rg[1].upperRange) = 0
        \/ i <= rg[1].upperRange[1]

\* Variant: the row tests the text for truthiness, so the empty string
\* renders nothing either.
AnsiiRowFalsy(i, gl, st, rg, sl, bm) ==
  IF Len(gl[i]) = 0 \/ Len(gl[i][1]) = 0
  THEN <<>>
  ELSE << [dataCy |-> "ansii-row",
           text |-> gl[i][1],
           highlight |-> /\ Len(st) = 1
                         /\ isLineInRange(rg, i)
                         /\ Matches(st[1], gl[i][1]),
           shared |-> (sl = <<i>>),
           bookmarked |-> (i \in bm)] >>

\* Render of row i: nothing when getLine(i) is undefined, otherwise the row
\* container with its text and decorations.
AnsiiRow(i, gl, st, rg, sl, bm) ==
  IF Len(gl[i]) = 0
  THEN <<>>
  ELSE << [dataCy |-> "ansii-row",
           text |-> gl[i][1],
           highlight |-> /\ Len(st) = 1
                         /\ isLineInRange(rg, i)
                         /\ Matches(st[1], gl[i][1]),
           shared |-> (sl = <<i>>),
           bookmarked |-> (i \in bm)] >>

\* Variant: the clicked line is added to the share lines already there.
ShareLineAfterClickKeeps(sl, i) == IF sl = <<i>> THEN <<>> ELSE sl \o <<i>>

\* Query state after a click on the link of line i.
ShareLineAfterClick(sl, i) == IF sl = <<i>> THEN <<>> ELSE <<i>>

\* Variant: a double click replaces the bookmarks by the clicked line.
ToggleBookmarkOverwrites(bm, i) == IF i \in bm THEN {} ELSE {i}

\* Query state after a double click on the text of line i.
ToggleBookmark(bm, i) == IF i \in bm THEN bm \ {i} ELSE bm \cup {i}

\* The list host renders row i.
RenderRow(i) ==
  /\ lineNumber' = i
  /\ rendered' = AnsiiRow(i, getLine, searchTerm, range, shareLine, bookmarks)
  /\ ev' = "render"
  /\ out' = <<>>
  /\ UNCHANGED <<getLine, searchTerm, range, shareLine, bookmarks, barVars>>

\* Click on the link of row i (data-cy log-link-i); the row exists.
ClickLink(i) ==
  /\ Len(getLine[i]) = 1
  /\ shareLine' = ShareLineAfterClick(shareLine, i)
  /\ out' = IF shareLine # <<i>> THEN << <<"scrollToLine", i>> >> ELSE <<>>
  /\ lineNumber' = i
  /\ rendered' = AnsiiRow(i, getLine, searchTerm, range, shareLine', bookmarks)
  /\ ev' = "clickLink"
  /\ UNCHANGED <<getLine, searchTerm, range, bookmarks, barVars>>

\* Double click on the text of row i; the row exists.
DblClickLine(i) ==
  /\ Len(getLine[i]) = 1
  /\ bookmarks' = ToggleBookmark(bookmarks, i)
  /\ out' = <<>>
  /\ lineNumber' = i
  /\ rendered' = AnsiiRow(i, getLine, searchTerm, range, shareLine, bookmarks')
  /\ ev' = "dblClick"
  /\ UNCHANGED <<getLine, searchTerm, range, shareLine, barVars>>

BarIdle ==
  /\ input = <<>>
  /\ selected = SearchBarActions.Search
  /\ disabled = FALSE
  /\ rejected = {}
  /\ mounted = FALSE
  /\ timer = <<>>
  /\ orphans = <<>>
  /\ stale = FALSE
  /\ late = FALSE

\* A row list over any log, search term, range and URL query state.
RowInit ==
  /\ getLine \in LineAccessors
  /\ searchTerm \in {<<>>} \cup {<<t>> : t \in Terms}
  /\ range \in {<<>>} \cup {<<r>> : r \in Ranges}
  /\ shareLine \in {<<>>} \cup {<<i>> : i \in Lines}
  /\ bookmarks \in SUBSET Lines
  /\ lineNumber = 0
  /\ rendered = AnsiiRow(0, getLine, searchTerm, range, shareLine, bookmarks)
  /\ ev = "render"
  /\ out = <<>>
  /\ BarIdle

RowNext ==
  \/ \E i \in Lines : RenderRow(i)
  \/ \E i \in Lines : ClickLink(i)
  \/ \E i \in Lines : DblClickLine(i)

RowSpec == RowInit /\ [][RowNext]_vars

\* ------------------------------------------------------------- properties

\* Positions in a list of calls of the calls of function fn.
CallsOf(calls, fn) == {k \in 1..Len(calls) : calls[k][1] = fn}

\* C1: onSubmit is never invoked with a pattern the validator rejects,
\* whatever the path to the submit (Enter, click, or the automatic submit when
\* the mode becomes Search).
C1_NoInvalidSubmit ==
  \A k \in CallsOf(out, "onSubmit") : validator(out[k][3])

\* C2: whenever a debounced callback runs and calls onChange(m, v), m is the
\* mode of the SearchBar at that moment.
C2_ForwardedModeIsCurrent ==
  \A k \in CallsOf(out, "onChange") : out[k][2] = selected

\* C3: in a run of changePattern calls less than 1000ms apart only the final
\* value is forwarded, once: no onChange call carries a value that was
\* followed, before its 1000ms had run out, by a newer valid changePattern
\* (already the weakest reading of the claim, which counts valid values only).
C3_NoSupersededValueForwarded == ~stale

\* C4: after every submit the pattern is empty when the mode at submit time is
\* Filter or Highlight, and is the pattern from before the submit when the
\* mode is Search.
C4_SubmitClearsPattern ==
  [][CallsOf(out', "onSubmit") # {} =>
       IF selected' \in {SearchBarActions.Filter, SearchBarActions.Highlight}
       THEN input' = <<>>
       ELSE input' = input]_vars

C4_Witness ==
  /\ ev = "enter"
  /\ selected = SearchBarActions.Highlight
  /\ input = <<>>
  /\ \E k \in CallsOf(out, "onSubmit") : out[k][3] # <<>>

\* C5: a step that takes the mode from Filter or Highlight to Search (select
\* or Ctrl+S) calls onSubmit exactly once, with (Search, pattern), when the
\* pattern is not empty, and not at all when it is empty; the mount in Search
\* mode calls it not at all.
C5_OneAutomaticSubmit ==
  /\ [](ev = "mount" => CallsOf(out, "onSubmit") = {})
  /\ [][(selected # SearchBarActions.Search /\ selected' = SearchBarActions.Search) =>
          IF input # <<>>
          THEN /\ Cardinality(CallsOf(out', "onSubmit")) = 1
               /\ \A k \in CallsOf(out', "onSubmit") :
                    out'[k] = <<"onSubmit", SearchBarActions.Search, input>>
          ELSE CallsOf(out', "onSubmit") = {}]_vars

C5_Witness ==
  /\ ev = "ctrlS"
  /\ selected = SearchBarActions.Search
  /\ Cardinality(CallsOf(out, "onSubmit")) = 1

\* C6: while the bar is enabled a Ctrl+S press takes Search to Filter, Filter
\* to Highlight and Highlight to Search; three presses lead back to the mode
\* they started from.
C6_CtrlSCycles ==
  /\ [][(ev' = "ctrlS" /\ ~disabled) =>
          selected' = CASE selected = "search" -> "filter"
                        [] selected = "filter" -> "highlight"
                        [] selected = "highlight" -> "search"]_vars
  /\ [](\A m \in {"search", "filter", "highlight"} :
          NextSearchBarAction(NextSearchBarAction(NextSearchBarAction(m))) = m)

C6_Witness == ev = "ctrlS" /\ ~disabled /\ selected = "search"

\* C7: while the validator rejects the pattern, Enter and a click on the
\* submit position call nothing and leave pattern and mode as they are, and
\* the icon of the input is the warning with validatorMessage, not the submit
\* button.
C7_InvalidBlocksSubmit ==
  /\ [](~validator(input) => (Icon.glyph = "Warning" /\ Icon.text = validatorMessage))
  /\ [][(ev' \in {"enter", "click"} /\ ~validator(input)) =>
          (out' = <<>> /\ input' = input /\ selected' = selected)]_vars

C7_Witness == ev = "click" /\ ~validator(input) /\ input # <<>> /\ out = <<>>

\* C8: a click on the link of line i makes i the share line and calls
\* scrollToLine(i) when the share line was absent or another line, and removes
\* the share line when it was i; there is never more than one share line; two
\* clicks on the same link starting without a share line end without one.
C8_ShareLineToggles ==
  /\ [](Len(shareLine) <= 1)
  /\ [][ev' = "clickLink" =>
          IF shareLine # <<lineNumber'>>
          THEN /\ shareLine' = <<lineNumber'>>
               /\ out' = << <<"scrollToLine", lineNumber'>> >>
          ELSE shareLine' = <<>>]_vars
  /\ [](\A i \in Lines : ShareLineAfterClick(ShareLineAfterClick(<<>>, i), i) = <<>>)

C8_Witness ==
  /\ ev = "clickLink"
  /\ shareLine = <<1>>
  /\ out = << <<"scrollToLine", 1>> >>
  /\ rendered # <<>> /\ rendered[1].shared

\* C9: a double click on the text of line i adds i to the bookmarks when it
\* was not in them and removes it when it was, changes the membership of no
\* other line and leaves the share line alone; two double clicks on the same
\* line give the bookmarks from before.
C9_BookmarkToggles ==
  /\ [][ev' = "dblClick" =>
          /\ (lineNumber' \in bookmarks') <=> (lineNumber' \notin bookmarks)
          /\ \A j \in Lines \ {lineNumber'} : (j \in bookmarks') <=> (j \in bookmarks)
          /\ shareLine' = shareLine]_vars
  /\ [](\A i \in Lines : ToggleBookmark(ToggleBookmark(bookmarks, i), i) = bookmarks)

C9_Witness ==
  /\ ev = "dblClick"
  /\ lineNumber = 0
  /\ bookmarks = {1}
  /\ shareLine = <<0>>

\* C10: row i carries the highlight decoration exactly when a search term is
\* set, the text of line i matches it without regard to case, and, when a
\* range is given, lowerRange <= i and i <= upperRange if there is an
\* upperRange.
C10_HighlightIffMatchInRange ==
  LET i == lineNumber
      decorated == rendered # <<>> /\ rendered[1].highlight
  IN  decorated <=>
        /\ searchTerm # <<>>
        /\ getLine[i] # <<>>
        /\ Matches(searchTerm[1], getLine[i][1])
        /\ range # <<>> =>
             /\ range[1].lowerRange <= i
             /\ range[1].upperRange # <<>> => i <= range[1].upperRange[1]

C10_Witness ==
  /\ rendered # <<>> /\ rendered[1].highlight
  /\ range # <<>> /\ range[1].upperRange = <<lineNumber>>
  /\ lineNumber = MaxLine

\* C11: the container of row i is rendered exactly when getLine(i) is
\* defined: nothing for undefined, a container with empty content for the
\* empty string.
C11_RowIffLineDefined ==
  /\ (rendered # <<>>) <=> (getLine[lineNumber] # <<>>)
  /\ getLine[lineNumber] = << <<>> >> =>
       (Len(rendered) = 1 /\ rendered[1].dataCy = "ansii-row" /\ rendered[1].text = <<>>)

C11_Witness ==
  /\ lineNumber = 1
  /\ getLine[0] = <<>>
  /\ getLine[1] = << <<>> >>
  /\ Len(rendered) = 1 /\ rendered[1].text = <<>>

\* C13: a submit by Enter or by click happens only with a valid pattern; a
\* click with an empty pattern never calls onSubmit; Enter with an empty
\* pattern that the validator accepts calls onSubmit(mode, "").
C13_ClickNeedsNonEmpty ==
  /\ [][(ev' \in {"enter", "click"} /\ CallsOf(out', "onSubmit") # {}) => validator(input)]_vars
  /\ [][(ev' = "click" /\ input = <<>>) => CallsOf(out', "onSubmit") = {}]_vars
  /\ [][(ev' = "enter" /\ input = <<>> /\ validator(<<>>)) =>
          \E k \in CallsOf(out', "onSubmit") : out'[k] = <<"onSubmit", selected, <<>> >>]_vars

C13_Witness ==
  /\ ev = "enter"
  /\ input = <<>>
  /\ selected = "search"
  /\ \E k \in CallsOf(out, "onSubmit") : out[k] = <<"onSubmit", "search", <<>> >>

\* C14: in every submit the breadcrumb search-bar-submit is left immediately
\* before onSubmit is called, and both get the mode of the submit and the
\* pattern from before the submit, also when the submit clears the pattern.
C14_SubmitPassesUnclearedPattern ==
  [][\A k \in CallsOf(out', "onSubmit") :
       /\ out'[k] = <<"onSubmit", selected', input>>
       /\ k > 1
       /\ out'[k - 1] = <<"leaveBreadcrumb", "search-bar-submit", selected', input>>]_vars

C14_Witness ==
  /\ ev = "enter"
  /\ selected = "filter"
  /\ input = <<>>
  /\ Len(out) = 3
  /\ out[2] = <<"leaveBreadcrumb", "search-bar-submit", "filter", <<"a">> >>
  /\ out[3] = <<"onSubmit", "filter", <<"a">> >>

\* C12: changePattern(v) shows v at once, valid or not; a changePattern with
\* a value the validator rejects sets no timeout and leaves the pending ones
\* alone; onChange is never called with a value the validator rejects.
C12_InvalidShownNotForwarded ==
  /\ [](\A k \in CallsOf(out, "onChange") : validator(out[k][3]))
  /\ []((mounted /\ ~disabled) =>
          \A v \in Patterns \ {input} : ENABLED (handleOnChange(v) /\ input' = v))
  /\ [][ev' = "changePattern" =>
          IF validator(input')
          THEN /\ Len(timer') = 1
               /\ timer'[1].value = input'
               /\ timer'[1].remaining = DebounceMs
          ELSE timer' = timer /\ orphans' = orphans]_vars

C12_Witness ==
  /\ ev = "changePattern"
  /\ ~validator(input)
  /\ Len(timer) = 1 /\ timer[1].value # input

\* C16: onSubmit is called only in a step that is Enter, a click on the
\* submit button, or a change of the mode from Filter or Highlight to Search:
\* a changePattern, whose render leaves isSearch as it was, never calls it.
C16_SubmitOnlyOnTransition ==
  /\ [](CallsOf(out, "onSubmit") # {} => ev \in {"enter", "click", "select", "ctrlS"})
  /\ [][(ev' \in {"select", "ctrlS"} /\ CallsOf(out', "onSubmit") # {}) =>
          (selected # "search" /\ selected' = "search")]_vars
  /\ [][ev' = "changePattern" => CallsOf(out', "onSubmit") = {}]_vars

C16_Witness ==
  /\ ev = "changePattern"
  /\ selected = "search"
  /\ input # <<>>
  /\ out = <<>>

\* C15: after the component is unmounted onChange is not called any more: a
\* timeout pending at the unmount is dropped.
C15_NoForwardAfterUnmount ==
  ~mounted => CallsOf(out, "onChange") = {}

\* C17: while the bar is disabled, Ctrl+S and Ctrl+F call nothing (no submit,
\* no focus) and leave the mode and the pattern as they are.
C17_ShortcutsOffWhenDisabled ==
  [][(ev' \in {"ctrlS", "ctrlF"} /\ disabled) =>
       (out' = <<>> /\ selected' = selected /\ input' = input)]_vars

C17_Witness ==
  /\ ev = "ctrlS"
  /\ disabled
  /\ selected = "highlight"
  /\ input # <<>>
  /\ out = <<>>

\* C18: a change of the mode (select or Ctrl+S) leaves the pattern as it is,
\* also when it submits; changePattern, Enter and click leave the mode as it
\* is; the mode is Search at the mount and always one of Search, Filter and
\* Highlight.
C18_ModeAndPatternFrame ==
  /\ [](selected \in {"search", "filter", "highlight"})
  /\ [](ev = "mount" => selected = "search")
  /\ [][ev' \in {"select", "ctrlS"} => input' = input]_vars
  /\ [][ev' \in {"changePattern", "enter", "click"} => selected' = selected]_vars

C18_Witness ==
  /\ ev = "select"
  /\ selected = "search"
  /\ input # <<>>
  /\ CallsOf(out, "onSubmit") # {}

\* The debounce timeouts that run as time passes: time does pass, and a
\* timeout that has run out is run.
\* The validator of LiveSpec accepts "" and "a" and rejects "b", so that valid
\* and invalid values can both be entered while a timeout is pending.
LiveValidators == {{<<"b">>}}

LiveInit == Init /\ rejected \in LiveValidators

LiveSpec ==
  /\ LiveInit
  /\ [][Next]_vars
  /\ WF_vars(Tick)
  /\ WF_vars(FireTimer)
  /\ WF_vars(\E k \in 1..MaxOrphans : FireOrphan(k))

\* The timeouts pending in a state.
Timeouts(t, os) == {t[k] : k \in 1..Len(t)} \cup {os[k] : k \in 1..Len(os)}

\* What a timeout holds, without the history kept with it.
TimeoutCore(t) == <<t.selected, t.value, t.remaining>>

TimeoutHeld(t) == <<t.selected, t.value>>

\* C19 (as claimed): after a submit in Filter or Highlight mode has cleared
\* the pattern, no onChange call carries a value entered before that submit,
\* so the value of every onChange call is the pattern shown at that moment.
C19_NoPreSubmitValueForwarded == ~late

\* C19 (as amended): a submit cancels nothing.  Enter and click leave mode,
\* value and remaining time of every pending timeout as they are; a timeout
\* gets its value only from the changePattern that sets it, which is the
\* pattern shown then; and every onChange call carries mode and value of a
\* timeout that had run out.
C19_ForwardsValueShownWhenSet ==
  /\ [][ev' \in {"enter", "click"} =>
          /\ Len(timer') = Len(timer) /\ Len(orphans') = Len(orphans)
          /\ \A k \in 1..Len(timer) : TimeoutCore(timer'[k]) = TimeoutCore(timer[k])
          /\ \A k \in 1..Len(orphans) : TimeoutCore(orphans'[k]) = TimeoutCore(orphans[k])]_vars
  /\ [][\A t \in Timeouts(timer', orphans') :
          \/ \E t0 \in Timeouts(timer, orphans) : TimeoutHeld(t0) = TimeoutHeld(t)
          \/ ev' = "changePattern" /\ TimeoutHeld(t) = <<selected', input'>>]_vars
  /\ [][\A k \in CallsOf(out', "onChange") :
          \E t0 \in Timeouts(timer, orphans) :
            t0.remaining = 0 /\ out'[k] = <<"onChange", t0.selected, t0.value>>]_vars

C19_Witness ==
  /\ late
  /\ ev = "timeout"
  /\ input = <<>>
  /\ out = << <<"onChange", "filter", <<"a">> >> >>
  /\ selected = "filter"

\* C20: no valid change is lost.  While the timeout holding the last valid
\* value entered is pending, it will run and call onChange unless a valid
\* value is entered again first (which then is the one to be forwarded),
\* whatever mode changes, invalid values and submits come in between.
LatestPending == \E t \in Timeouts(timer, orphans) : t.latest

C20_NoValidChangeLost ==
  LatestPending ~>
    \/ ~LatestPending /\ ev = "timeout" /\ CallsOf(out, "onChange") # {}
    \/ ev = "changePattern" /\ validator(input)

C20_Witness ==
  /\ ev = "timeout"
  /\ ~LatestPending
  /\ mounted
  /\ ~validator(input)
  /\ \E k \in CallsOf(out, "onChange") : out[k][2] # selected /\ ~stale

====
